---- MODULE Spec2Model ----
(***************************************************************************)
(* Path reconstruction of packetgeotrace (map.py): the infrastructure      *)
(* index built at import time, nearest-point snapping, the cable cost      *)
(* estimator and the recursive planner PathBuilder.build_path_between.     *)
(*                                                                         *)
(* A location is a Python sequence of two numbers: a tuple (lat, lon), as  *)
(* the keys of the index and the results of find_closest_point are, or a   *)
(* list [lat, lon], as json.load makes the endpoints and the geometry of a *)
(* cable.  A tuple and a list of the same numbers are not equal in Python, *)
(* and they are not equal here.                                            *)
(*                                                                         *)
(* The catalogs range over locations on the line lon = 0 with even         *)
(* latitudes, so that every math.dist the code computes, every midpoint    *)
(* and every 0.5 * |a - b| is an integer and the float arithmetic of the   *)
(* code is exact.                                                          *)
(*                                                                         *)
(* The recursion of the planner is run on an explicit stack of pending     *)
(* calls: the head of `stack` is the call being executed, a handler        *)
(* replaces its own entry by the calls it makes, in the order it makes     *)
(* them.                                                                   *)
(***************************************************************************)
EXTENDS Integers, Sequences, FiniteSets, TLC

GROUND_EXCHANGE_TYPE == "ground-exchange"
SUBMARINE_TYPE == "submarine"
CABLE_BREAK_LEN == 10

\* Bounds of the catalogs and of a run.
MaxGround == 3
MaxCables == 2
MaxEndpoints == 2
MaxPairs == 1
MaxPoints == 5
MaxSteps == 30

\* Latitudes of the catalog locations and of the trace hops.
Lats == {0, 6, 12, 22, 24}
HopLats == Lats \cup {3, 18}

\* Python's (lat, lon) and [lat, lon], and tuple(x) and list(x).
Tuple(lat, lon) == [kind |-> "tuple", v |-> <<lat, lon>>]
List(lat, lon) == [kind |-> "list", v |-> <<lat, lon>>]
tuple(x) == [x EXCEPT !.kind = "tuple"]
list(x) == [x EXCEPT !.kind = "list"]

\* The locations of the two files, as json.load gives them, and the hops.
Locs == {List(x, 0) : x \in Lats}
Hops == {Tuple(x, 0) : x \in HopLats}

VARIABLES
    SUBMARINE_CABLES,       \* the list loaded from data/submarine.json
    INFRASTRUCTURE_POINTS,  \* the dict location -> {type, data}: [keys, val]
    stack,                  \* pending calls, head first
    map,                    \* the polylines added to the folium map, in order
    first,                  \* Len(map) when the current pair was started
    cur,                    \* the snapped pair being connected
    npairs,                 \* pairs of path_points connected so far
    steps,                  \* handler steps taken for the current pair
    error                   \* "none", or the exception that ended the run

vars == <<SUBMARINE_CABLES, INFRASTRUCTURE_POINTS, stack, map, first, cur, npairs, steps, error>>

----------------------------------------------------------------------------
\* Arithmetic.

\* The exact square root; defined on perfect squares only.
Sqrt(n) == CHOOSE r \in 0..n : r * r = n

\* math.dist of two locations.
Dist(p, q) ==
    Sqrt((p.v[1] - q.v[1]) * (p.v[1] - q.v[1]) + (p.v[2] - q.v[2]) * (p.v[2] - q.v[2]))

\* math.dist((a,), (b,)) of two 1-tuples.
Dist1(a, b) == Sqrt((a - b) * (a - b))

----------------------------------------------------------------------------
\* Module load: INFRASTRUCTURE_POINTS.

EmptyDict == [keys |-> <<>>, val |-> <<>>]

\* d[k] = v of a Python dict: a new key goes last, an old key keeps its place.
DictSet(d, k, v) ==
    [keys |-> IF k \in DOMAIN d.val THEN d.keys ELSE Append(d.keys, k),
     val  |-> (k :> v) @@ d.val]

RECURSIVE LoadGround(_, _, _)
LoadGround(d, ground, i) ==
    IF i > Len(ground) THEN d
    ELSE LoadGround(DictSet(d, tuple(ground[i]),
                            [type |-> GROUND_EXCHANGE_TYPE, data |-> i]),
                    ground, i + 1)

RECURSIVE LoadEndpoints(_, _, _, _)
LoadEndpoints(d, cables, c, j) ==
    IF j > Len(cables[c].endpoints) THEN d
    ELSE LoadEndpoints(DictSet(d, tuple(cables[c].endpoints[j]),
                               [type |-> SUBMARINE_TYPE, data |-> c]),
                       cables, c, j + 1)

RECURSIVE LoadSubmarine(_, _, _)
LoadSubmarine(d, cables, c) ==
    IF c > Len(cables) THEN d
    ELSE IF Len(cables[c].endpoints) = 1 THEN LoadSubmarine(d, cables, c + 1)
    ELSE LoadSubmarine(LoadEndpoints(d, cables, c, 1), cables, c + 1)

LoadIndex(ground, cables) == LoadSubmarine(LoadGround(EmptyDict, ground, 1), cables, 1)

\* Sequences of 1..n distinct locations.
DistinctSeqs(n) ==
    {s \in UNION {[1..k -> Locs] : k \in 1..n} :
        \A i, j \in DOMAIN s : i # j => s[i] # s[j]}

\* The ground-exchange file: distinct locations, listed by rising latitude.
GroundCatalogs ==
    {s \in DistinctSeqs(MaxGround) : \A i, j \in DOMAIN s : i < j => s[i].v[1] < s[j].v[1]}

\* A cable record: its name, its landing points and its route (the route
\* runs through the landing points in their order).
Cable(n, eps) == [name |-> n, endpoints |-> eps, geometry |-> eps]

CableCatalogs ==
    {[c \in DOMAIN es |-> Cable(c, es[c])] :
        es \in UNION {[1..k -> DistinctSeqs(MaxEndpoints)] : k \in 1..MaxCables}}

RECURSIVE CountEndpoints(_, _)
CountEndpoints(cables, c) ==
    IF c > Len(cables) THEN 0
    ELSE Len(cables[c].endpoints) + CountEndpoints(cables, c + 1)

\* The number of locations the two files list.
CatalogSize(ground, cables) == Len(ground) + CountEndpoints(cables, 1)

Keys == INFRASTRUCTURE_POINTS.keys
KeySet == DOMAIN INFRASTRUCTURE_POINTS.val
TypeOf(loc) == INFRASTRUCTURE_POINTS.val[loc].type
DataOf(loc) == INFRASTRUCTURE_POINTS.val[loc].data

----------------------------------------------------------------------------
\* find_closest_point.

RECURSIVE ScanClosest(_, _, _, _)
\* The loop of find_closest_point from position i on; best is the index of
\* closest_point so far (0: None).
ScanClosest(target_loc, positions, i, best) ==
    IF i > Len(positions) THEN best
    ELSE LET distance == Dist(positions[i], target_loc)
         IN  IF best = 0 \/ distance < Dist(positions[best], target_loc)
             THEN ScanClosest(target_loc, positions, i + 1, i)
             ELSE ScanClosest(target_loc, positions, i + 1, best)

RECURSIVE ScanClosestLast(_, _, _, _)
ScanClosestLast(target_loc, positions, i, best) ==
    IF i > Len(positions) THEN best
    ELSE LET distance == Dist(positions[i], target_loc)
         IN  IF best = 0 \/ distance <= Dist(positions[best], target_loc)
             THEN ScanClosestLast(target_loc, positions, i + 1, i)
             ELSE ScanClosestLast(target_loc, positions, i + 1, best)

\* Mutant of find_closest_point: <= for <, the last nearest candidate wins.
find_closest_point_last(target_loc, positions) ==
    tuple(positions[ScanClosestLast(target_loc, positions, 1, 0)])

find_closest_point(target_loc, positions) ==
    tuple(positions[ScanClosest(target_loc, positions, 1, 0)])

----------------------------------------------------------------------------
\* find_closest_submarine_cable_between.

\* cables_distance_to_entry[c][0]
EntryDistance(start_loc, c) ==
    Dist(start_loc, find_closest_point(start_loc, SUBMARINE_CABLES[c].endpoints))

TotalDistance(entry_distance, endpoint_distance) ==
    entry_distance + endpoint_distance + (Dist1(entry_distance, endpoint_distance) \div 2)

RECURSIVE ScanCables(_, _, _, _, _)
\* The second loop, from cable c, endpoint j on; min = [dist, cable] with
\* cable = 0 for None.
ScanCables(start_loc, end_loc, c, j, min) ==
    IF c > Len(SUBMARINE_CABLES) THEN min
    ELSE IF j > Len(SUBMARINE_CABLES[c].endpoints)
         THEN ScanCables(start_loc, end_loc, c + 1, 1, min)
    ELSE LET endpoint_distance == Dist(SUBMARINE_CABLES[c].endpoints[j], end_loc)
             total_distance == TotalDistance(EntryDistance(start_loc, c), endpoint_distance)
         IN  IF min.cable = 0 \/ total_distance < min.dist
             THEN ScanCables(start_loc, end_loc, c, j + 1,
                             [dist |-> total_distance, cable |-> c])
             ELSE ScanCables(start_loc, end_loc, c, j + 1, min)

find_closest_submarine_cable_between(start_loc, end_loc) ==
    ScanCables(start_loc, end_loc, 1, 1, [dist |-> 0, cable |-> 0])

----------------------------------------------------------------------------
\* Calls and polylines.

\* A pending call.  gap and why record, for a build_path_between call, the
\* distance of the planner invocation that made it and the place it was
\* made at; they are carried through the ground-line calls in between.
Call(op, a, b, cable, gap, why) ==
    [op |-> op, a |-> a, b |-> b, cable |-> cable, gap |-> gap, why |-> why]

Build(a, b, gap, why) == Call("build", a, b, 0, gap, why)
Ground(a, b, gap) == Call("ground", a, b, 0, gap, "line")
Submarine(a, b, cable) == Call("submarine", a, b, cable, 0, "line")

GroundLine(a, b) ==
    [type |-> "ground", from |-> a, to |-> b, name |-> 0, locations |-> <<a, b>>]

IndexOf(seq, x) == CHOOSE i \in 1..Len(seq) : seq[i] = x /\ \A j \in 1..(i - 1) : seq[j] # x

\* draw_submarine_cable: the slice of the route between the two points.
GeometrySlice(start_loc, end_loc, full_geometry) ==
    LET gs == IndexOf(full_geometry, list(find_closest_point(start_loc, full_geometry)))
        ge == IndexOf(full_geometry, list(find_closest_point(end_loc, full_geometry)))
        lo == IF gs > ge THEN ge ELSE gs
        hi == IF gs > ge THEN gs ELSE ge
    IN  SubSeq(full_geometry, lo, hi)

SubmarineLine(a, b, c) ==
    [type |-> "submarine", from |-> a, to |-> b, name |-> SUBMARINE_CABLES[c].name,
     locations |-> GeometrySlice(a, b, SUBMARINE_CABLES[c].geometry)]

----------------------------------------------------------------------------
\* The four cases of build_path_between: the calls each makes, in order.

\* Mutant of ground_to_ground: the planner goes on from the cable's entry.
ground_to_ground_from_entry(start_loc, end_loc) ==
    LET ground_distance == Dist(start_loc, end_loc)
        found == find_closest_submarine_cable_between(start_loc, end_loc)
        eps == SUBMARINE_CABLES[found.cable].endpoints
        closest_cable_entry == find_closest_point(start_loc, eps)
        closest_cable_exit == find_closest_point(end_loc, eps)
    IN  IF found.dist < ground_distance
        THEN << Ground(start_loc, closest_cable_entry, ground_distance),
                Submarine(closest_cable_entry, closest_cable_exit, found.cable),
                Build(closest_cable_entry, end_loc, ground_distance, "g2g") >>
        ELSE << Ground(start_loc, end_loc, ground_distance) >>

\* Mutant of ground_to_ground: the cable is taken at equal cost too.
ground_to_ground_at_equal_cost(start_loc, end_loc) ==
    LET ground_distance == Dist(start_loc, end_loc)
        found == find_closest_submarine_cable_between(start_loc, end_loc)
        eps == SUBMARINE_CABLES[found.cable].endpoints
        closest_cable_entry == find_closest_point(start_loc, eps)
        closest_cable_exit == find_closest_point(end_loc, eps)
    IN  IF found.dist <= ground_distance
        THEN << Ground(start_loc, closest_cable_entry, ground_distance),
                Submarine(closest_cable_entry, closest_cable_exit, found.cable),
                Build(closest_cable_exit, end_loc, ground_distance, "g2g") >>
        ELSE << Ground(start_loc, end_loc, ground_distance) >>

ground_to_ground(start_loc, end_loc) ==
    LET ground_distance == Dist(start_loc, end_loc)
        found == find_closest_submarine_cable_between(start_loc, end_loc)
        eps == SUBMARINE_CABLES[found.cable].endpoints
        closest_cable_entry == find_closest_point(start_loc, eps)
        closest_cable_exit == find_closest_point(end_loc, eps)
    IN  IF found.dist < ground_distance
        THEN << Ground(start_loc, closest_cable_entry, ground_distance),
                Submarine(closest_cable_entry, closest_cable_exit, found.cable),
                Build(closest_cable_exit, end_loc, ground_distance, "g2g") >>
        ELSE << Ground(start_loc, end_loc, ground_distance) >>

\* Mutant of submarine_to_ground: the exit is the first landing point of the
\* cable that is not start, whatever its distance to the end.
submarine_to_ground_first_other(start_loc, start_data, end_loc) ==
    LET eps == SUBMARINE_CABLES[start_data].endpoints
        others == SelectSeq(eps, LAMBDA e : e # start_loc)
        closest_cable_exit == IF others = <<>> THEN start_loc ELSE others[1]
        gap == Dist(start_loc, end_loc)
    IN  IF closest_cable_exit # start_loc
        THEN << Submarine(start_loc, closest_cable_exit, start_data),
                Build(closest_cable_exit, end_loc, gap, "s2g") >>
        ELSE << Ground(start_loc, end_loc, gap) >>

submarine_to_ground(start_loc, start_data, end_loc) ==
    LET closest_cable_exit ==
            find_closest_point(end_loc, SUBMARINE_CABLES[start_data].endpoints)
        gap == Dist(start_loc, end_loc)
    IN  IF closest_cable_exit # start_loc
        THEN << Submarine(start_loc, closest_cable_exit, start_data),
                Build(closest_cable_exit, end_loc, gap, "s2g") >>
        ELSE << Ground(start_loc, end_loc, gap) >>

\* Mutant of ground_to_submarine: the cable is drawn before the ground leg.
ground_to_submarine_cable_first(start_loc, end_loc, end_data) ==
    LET closest_cable_entry ==
            find_closest_point(start_loc, SUBMARINE_CABLES[end_data].endpoints)
        gap == Dist(start_loc, end_loc)
    IN  IF closest_cable_entry = end_loc
        THEN << Ground(start_loc, end_loc, gap) >>
        ELSE << Submarine(closest_cable_entry, end_loc, end_data),
                Build(start_loc, closest_cable_entry, gap, "g2s") >>

ground_to_submarine(start_loc, end_loc, end_data) ==
    LET closest_cable_entry ==
            find_closest_point(start_loc, SUBMARINE_CABLES[end_data].endpoints)
        gap == Dist(start_loc, end_loc)
    IN  IF closest_cable_entry = end_loc
        THEN << Ground(start_loc, end_loc, gap) >>
        ELSE << Build(start_loc, closest_cable_entry, gap, "g2s"),
                Submarine(closest_cable_entry, end_loc, end_data) >>

\* Mutant of submarine_to_submarine: the last leg is drawn on the start's
\* cable.
submarine_to_submarine_start_cable(start_loc, start_data, end_loc, end_data) ==
    LET start_eps == SUBMARINE_CABLES[start_data].endpoints
        closest_endpoint == find_closest_point(end_loc, start_eps)
        closest_entry == find_closest_point(start_loc, SUBMARINE_CABLES[end_data].endpoints)
        gap == Dist(start_loc, end_loc)
    IN  IF \E j \in DOMAIN start_eps : start_eps[j] = end_loc
        THEN << Submarine(start_loc, end_loc, start_data) >>
        ELSE IF closest_endpoint = start_loc
        THEN IF closest_entry # end_loc
             THEN << Ground(start_loc, closest_entry, gap),
                     Submarine(closest_entry, end_loc, start_data) >>
             ELSE << Ground(start_loc, closest_entry, gap) >>
        ELSE << Submarine(start_loc, closest_endpoint, start_data),
                Build(closest_endpoint, end_loc, gap, "s2s") >>

submarine_to_submarine(start_loc, start_data, end_loc, end_data) ==
    LET start_eps == SUBMARINE_CABLES[start_data].endpoints
        closest_endpoint == find_closest_point(end_loc, start_eps)
        closest_entry == find_closest_point(start_loc, SUBMARINE_CABLES[end_data].endpoints)
        gap == Dist(start_loc, end_loc)
    IN  IF \E j \in DOMAIN start_eps : start_eps[j] = end_loc
        THEN << Submarine(start_loc, end_loc, start_data) >>
        ELSE IF closest_endpoint = start_loc
        THEN IF closest_entry # end_loc
             THEN << Ground(start_loc, closest_entry, gap),
                     Submarine(closest_entry, end_loc, end_data) >>
             ELSE << Ground(start_loc, closest_entry, gap) >>
        ELSE << Submarine(start_loc, closest_endpoint, start_data),
                Build(closest_endpoint, end_loc, gap, "s2s") >>

\* break_path: the snapped midpoint.
MidPoint(start_loc, end_loc) ==
    find_closest_point(Tuple((start_loc.v[1] + end_loc.v[1]) \div 2,
                             (start_loc.v[2] + end_loc.v[2]) \div 2), Keys)

\* Mutant of break_path: no base case, the path is always split.
break_path_always(start_loc, end_loc, gap) ==
    LET mid_point == MidPoint(start_loc, end_loc)
    IN  << Build(start_loc, mid_point, gap, "break"),
           Build(mid_point, end_loc, gap, "break") >>

break_path(start_loc, end_loc, gap) ==
    LET mid_point == MidPoint(start_loc, end_loc)
    IN  IF mid_point \in {start_loc, end_loc}
        THEN << Call("ground", start_loc, end_loc, 0, gap, "no_break") >>
        ELSE << Build(start_loc, mid_point, gap, "break"),
                Build(mid_point, end_loc, gap, "break") >>

----------------------------------------------------------------------------
\* The state machine.

Init ==
    /\ \E ground \in GroundCatalogs, cables \in CableCatalogs :
          /\ CatalogSize(ground, cables) <= MaxPoints
          /\ SUBMARINE_CABLES = cables
          /\ INFRASTRUCTURE_POINTS = LoadIndex(ground, cables)
    /\ stack = <<>>
    /\ map = <<>>
    /\ first = 0
    /\ cur = <<>>
    /\ npairs = 0
    /\ steps = 0
    /\ error = "none"

top == Head(stack)
Running == error = "none" /\ stack # <<>>

\* The head call returns after making `calls`; one more handler has run.
Replace(calls) ==
    /\ steps < MaxSteps
    /\ steps' = steps + 1
    /\ stack' = calls \o Tail(stack)

\* A polyline is added to the map.
Emit(line) == map' = Append(map, line)

\* PathBuilder.__init__, one turn of the loop over consecutive path points:
\* both hops are snapped to the index and the planner is started.  The start
\* of a later pair is the same hop as the end of the pair before it.
Connect ==
    /\ error = "none" /\ stack = <<>> /\ npairs < MaxPairs
    /\ \E p, q \in Hops :
          LET start == IF npairs = 0 THEN find_closest_point(p, Keys) ELSE cur[2]
              end == find_closest_point(q, Keys)
          IN  /\ cur' = <<start, end>>
              /\ stack' = << Build(start, end, -1, "root") >>
    /\ first' = Len(map)
    /\ npairs' = npairs + 1
    /\ steps' = 0
    /\ UNCHANGED <<SUBMARINE_CABLES, INFRASTRUCTURE_POINTS, map, error>>

\* The case build_path_between takes.
CaseOf(start_type, end_type) ==
    IF start_type = GROUND_EXCHANGE_TYPE
    THEN IF end_type = GROUND_EXCHANGE_TYPE THEN "g2g" ELSE "g2s"
    ELSE IF end_type = GROUND_EXCHANGE_TYPE THEN "s2g" ELSE "s2s"

\* build_path_between: the four index lookups (a KeyError when a location is
\* no key of the index) and the dispatch on the two types.
BuildPathBetween ==
    /\ Running /\ top.op = "build"
    /\ IF top.a \in KeySet /\ top.b \in KeySet
       THEN /\ Replace(<< [top EXCEPT !.op = CaseOf(TypeOf(top.a), TypeOf(top.b))] >>)
            /\ error' = error
       ELSE /\ error' = "KeyError"
            /\ UNCHANGED <<stack, steps>>
    /\ UNCHANGED <<SUBMARINE_CABLES, INFRASTRUCTURE_POINTS, map, first, cur, npairs>>

GroundToGround ==
    /\ Running /\ top.op = "g2g"
    /\ Replace(ground_to_ground(top.a, top.b))
    /\ UNCHANGED <<SUBMARINE_CABLES, INFRASTRUCTURE_POINTS, map, first, cur, npairs, error>>

SubmarineToSubmarine ==
    /\ Running /\ top.op = "s2s"
    /\ Replace(submarine_to_submarine(top.a, DataOf(top.a), top.b, DataOf(top.b)))
    /\ UNCHANGED <<SUBMARINE_CABLES, INFRASTRUCTURE_POINTS, map, first, cur, npairs, error>>

GroundToSubmarine ==
    /\ Running /\ top.op = "g2s"
    /\ Replace(ground_to_submarine(top.a, top.b, DataOf(top.b)))
    /\ UNCHANGED <<SUBMARINE_CABLES, INFRASTRUCTURE_POINTS, map, first, cur, npairs, error>>

SubmarineToGround ==
    /\ Running /\ top.op = "s2g"
    /\ Replace(submarine_to_ground(top.a, DataOf(top.a), top.b))
    /\ UNCHANGED <<SUBMARINE_CABLES, INFRASTRUCTURE_POINTS, map, first, cur, npairs, error>>

\* draw_ground_line: the break rule, or the red polyline.
\* Mutant of ShouldBreak: >= for >.
ShouldBreakAtThreshold(start_loc, end_loc, no_break) ==
    Dist(start_loc, end_loc) >= CABLE_BREAK_LEN /\ ~no_break

ShouldBreak(start_loc, end_loc, no_break) ==
    Dist(start_loc, end_loc) > CABLE_BREAK_LEN /\ ~no_break

DrawGroundLine ==
    /\ Running /\ top.op = "ground"
    /\ IF ShouldBreak(top.a, top.b, top.why = "no_break")
       THEN /\ Replace(<< [top EXCEPT !.op = "break"] >>)
            /\ map' = map
       ELSE /\ Replace(<<>>)
            /\ Emit(GroundLine(top.a, top.b))
    /\ UNCHANGED <<SUBMARINE_CABLES, INFRASTRUCTURE_POINTS, first, cur, npairs, error>>

BreakPath ==
    /\ Running /\ top.op = "break"
    /\ Replace(break_path(top.a, top.b, top.gap))
    /\ UNCHANGED <<SUBMARINE_CABLES, INFRASTRUCTURE_POINTS, map, first, cur, npairs, error>>

\* draw_submarine_cable: the blue polyline.
DrawSubmarineCable ==
    /\ Running /\ top.op = "submarine"
    /\ Replace(<<>>)
    /\ Emit(SubmarineLine(top.a, top.b, top.cable))
    /\ UNCHANGED <<SUBMARINE_CABLES, INFRASTRUCTURE_POINTS, first, cur, npairs, error>>

Planner ==
    \/ BuildPathBetween
    \/ GroundToGround
    \/ SubmarineToSubmarine
    \/ GroundToSubmarine
    \/ SubmarineToGround
    \/ DrawGroundLine
    \/ BreakPath
    \/ DrawSubmarineCable

Next == Connect \/ Planner

Spec == Init /\ [][Next]_vars

----------------------------------------------------------------------------
\* The planner as a function: the polylines a list of pending calls adds to
\* the map, by the same handlers, within `fuel` handler steps.

RECURSIVE RunCalls(_, _, _)
RunCalls(calls, lines, fuel) ==
    IF calls = <<>> \/ fuel = 0 THEN lines
    ELSE LET c == Head(calls)
             rest == Tail(calls)
         IN  CASE c.op = "build" ->
                    RunCalls(<< [c EXCEPT !.op = CaseOf(TypeOf(c.a), TypeOf(c.b))] >> \o rest,
                             lines, fuel - 1)
               [] c.op = "g2g" ->
                    RunCalls(ground_to_ground(c.a, c.b) \o rest, lines, fuel - 1)
               [] c.op = "s2s" ->
                    RunCalls(submarine_to_submarine(c.a, DataOf(c.a), c.b, DataOf(c.b)) \o rest,
                             lines, fuel - 1)
               [] c.op = "g2s" ->
                    RunCalls(ground_to_submarine(c.a, c.b, DataOf(c.b)) \o rest, lines, fuel - 1)
               [] c.op = "s2g" ->
                    RunCalls(submarine_to_ground(c.a, DataOf(c.a), c.b) \o rest, lines, fuel - 1)
               [] c.op = "ground" ->
                    IF ShouldBreak(c.a, c.b, c.why = "no_break")
                    THEN RunCalls(<< [c EXCEPT !.op = "break"] >> \o rest, lines, fuel - 1)
                    ELSE RunCalls(rest, Append(lines, GroundLine(c.a, c.b)), fuel - 1)
               [] c.op = "break" ->
                    RunCalls(break_path(c.a, c.b, c.gap) \o rest, lines, fuel - 1)
               [] c.op = "submarine" ->
                    RunCalls(rest, Append(lines, SubmarineLine(c.a, c.b, c.cable)), fuel - 1)

\* The segments of build_path_between(start_loc, end_loc).
SegmentsOf(start_loc, end_loc) ==
    RunCalls(<< Build(start_loc, end_loc, -1, "root") >>, <<>>, MaxSteps)

----------------------------------------------------------------------------
\* The segments emitted for the current pair.
Emitted == SubSeq(map, first + 1, Len(map))
Finished == error = "none" /\ stack = <<>> /\ npairs > 0

Elems(seq) == {seq[i] : i \in DOMAIN seq}
\* The landing points of cable c, as locations of the index.
Endpoints(c) == {tuple(e) : e \in Elems(SUBMARINE_CABLES[c].endpoints)}
CableIds == DOMAIN SUBMARINE_CABLES

\* A ground segment the break rule decomposes.
Decomposed(a, b) == Dist(a, b) > CABLE_BREAK_LEN /\ MidPoint(a, b) \notin {a, b}

\* C1: build_path_between(start, end) terminates, for every catalog and
\* every pair of indexed locations (no run is still going after MaxSteps
\* handler steps, none ends in an exception), and has emitted at least one
\* segment when it returns.
C1_Terminates ==
    /\ Running => steps < MaxSteps
    /\ error = "none"
    /\ Finished => Len(Emitted) >= 1

C1_Witness ==
    /\ Finished
    /\ Len(Emitted) >= 3
    /\ \E c1, c2 \in CableIds : c1 # c2 /\ Endpoints(c1) \cap Endpoints(c2) # {}
    /\ \E i \in DOMAIN Emitted : Dist(Emitted[i].from, Emitted[i].to) > CABLE_BREAK_LEN

\* C2: for distinct start and end that are both landing points of one same
\* cable, build_path_between emits exactly one segment, a SubmarineLine from
\* start to end on such a cable.
C2_SameCableOneSegment ==
    (/\ Finished
     /\ cur[1] # cur[2]
     /\ \E c \in CableIds : {cur[1], cur[2]} \subseteq Endpoints(c))
    => /\ Len(Emitted) = 1
       /\ Emitted[1].type = "submarine"
       /\ Emitted[1].from = cur[1]
       /\ Emitted[1].to = cur[2]
       /\ \E c \in CableIds : /\ {cur[1], cur[2]} \subseteq Endpoints(c)
                              /\ Emitted[1].name = SUBMARINE_CABLES[c].name

\* The cable the cost estimator returns for the current pair, its entry and
\* its exit.
RootFound == find_closest_submarine_cable_between(cur[1], cur[2])
RootEntry == find_closest_point(cur[1], SUBMARINE_CABLES[RootFound.cable].endpoints)
RootExit == find_closest_point(cur[2], SUBMARINE_CABLES[RootFound.cable].endpoints)

\* The current pair is two ground exchanges with a cable cheaper than the
\* direct distance, and the planner has returned.
CableCheaper ==
    /\ Finished
    /\ TypeOf(cur[1]) = GROUND_EXCHANGE_TYPE
    /\ TypeOf(cur[2]) = GROUND_EXCHANGE_TYPE
    /\ RootFound.dist < Dist(cur[1], cur[2])

\* The segments start with GroundLine(start -> entry), SubmarineLine(entry ->
\* exit) and go on with the segments of the planner on (exit, end).
CableLegFirst ==
    /\ Len(Emitted) >= 2
    /\ Emitted[1] = GroundLine(cur[1], RootEntry)
    /\ Emitted[2] = SubmarineLine(RootEntry, RootExit, RootFound.cable)
    /\ SubSeq(Emitted, 3, Len(Emitted)) = SegmentsOf(RootExit, cur[2])

\* C3 as stated: two ground exchanges with a cheaper cable give
\* GroundLine(start -> entry), SubmarineLine(entry -> exit), then the
\* segments of the planner on (exit, end).
C3_CableLegFirst == CableCheaper => CableLegFirst

\* The segments drawn for the ground leg start -> entry.
EntryLeg ==
    RunCalls(<< Ground(cur[1], RootEntry, Dist(cur[1], cur[2])) >>, <<>>, MaxSteps)

\* C3 as amended: two ground exchanges with a cheaper cable give the
\* segments of the ground leg start -> entry (the one GroundLine(start ->
\* entry) unless the break rule decomposes that leg), then
\* SubmarineLine(entry -> exit), then the segments of the planner on
\* (exit, end).
C3_EntryLegFirst ==
    CableCheaper =>
        /\ Emitted = EntryLeg \o << SubmarineLine(RootEntry, RootExit, RootFound.cable) >>
                              \o SegmentsOf(RootExit, cur[2])
        /\ ~Decomposed(cur[1], RootEntry) => EntryLeg = << GroundLine(cur[1], RootEntry) >>

\* A cable was taken after a ground leg that the break rule decomposed.
C3_Witness ==
    /\ CableCheaper
    /\ Decomposed(cur[1], RootEntry)
    /\ Len(Emitted) >= 4

\* C4: the break rule.  A requested ground segment no longer than the
\* threshold is drawn as one direct GroundLine, and every GroundLine on the
\* map that is longer than the threshold has its snapped midpoint at one of
\* its own ends.
C4_BreakRule ==
    [][ /\ (/\ Running
            /\ top.op = "ground"
            /\ top.why = "line"
            /\ Dist(top.a, top.b) <= CABLE_BREAK_LEN)
           => /\ map' = Append(map, GroundLine(top.a, top.b))
              /\ stack' = Tail(stack)
        /\ \A i \in DOMAIN map' :
              (map'[i].type = "ground" /\ Dist(map'[i].from, map'[i].to) > CABLE_BREAK_LEN)
              => MidPoint(map'[i].from, map'[i].to) \in {map'[i].from, map'[i].to}
      ]_vars

C4_Witness ==
    /\ \E i \in DOMAIN Emitted :
          /\ Emitted[i].type = "ground"
          /\ Dist(Emitted[i].from, Emitted[i].to) = CABLE_BREAK_LEN
    /\ \E i \in DOMAIN Emitted :
          /\ Emitted[i].type = "ground"
          /\ Dist(Emitted[i].from, Emitted[i].to) > CABLE_BREAK_LEN

\* The candidate lists find_closest_point is called with.
CandidateLists == {Keys} \cup {SUBMARINE_CABLES[c].endpoints : c \in CableIds}

\* r is a nearest candidate to t, and the first of the nearest ones.
FirstNearest(t, positions, r) ==
    \E k \in DOMAIN positions :
        /\ tuple(positions[k]) = r
        /\ \A i \in DOMAIN positions : Dist(r, t) <= Dist(positions[i], t)
        /\ \A i \in 1..(k - 1) : Dist(positions[i], t) > Dist(r, t)

\* C5: find_closest_point returns a candidate at the least distance from the
\* target and, of the candidates at that distance, the first one (for every
\* hop and every candidate list of the catalog, as a pair is snapped).
C5_ClosestPoint ==
    steps = 0 =>
        \A t \in Hops : \A positions \in CandidateLists :
            FirstNearest(t, positions, find_closest_point(t, positions))

\* A hop with two nearest keys has been snapped.
C5_Witness ==
    /\ npairs = 1
    /\ \E p \in Hops :
          /\ cur[1] = find_closest_point(p, Keys)
          /\ \E k \in KeySet : k # cur[1] /\ Dist(k, p) = Dist(cur[1], p)

\* C6: the segments emitted for a pair form one chain from start to end.
C6_Chain ==
    Finished =>
        /\ Len(Emitted) >= 1
        /\ Emitted[1].from = cur[1]
        /\ Emitted[Len(Emitted)].to = cur[2]
        /\ \A i \in 1..(Len(Emitted) - 1) : Emitted[i].to = Emitted[i + 1].from

\* A ground segment was decomposed through its snapped midpoint.
C6_Witness ==
    /\ Finished
    /\ Decomposed(cur[1], cur[2])
    /\ Len(Emitted) >= 2
    /\ \A i \in DOMAIN Emitted : Emitted[i].type = "ground"

\* The recursive build_path_between calls that are pending.
Recursive == {i \in DOMAIN stack : stack[i].op = "build" /\ stack[i].why # "root"}

C8_NoKeyError ==
    /\ error # "KeyError"
    /\ \A i \in DOMAIN stack :
          stack[i].op = "build" => stack[i].a \in KeySet /\ stack[i].b \in KeySet

\* The catalog has a cable with one endpoint that is no key of the index,
\* and a cable was taken between two ground exchanges.
C8_Witness ==
    /\ CableCheaper
    /\ \E c \in CableIds :
          /\ Len(SUBMARINE_CABLES[c].endpoints) = 1
          /\ Endpoints(c) \cap KeySet = {}

\* C9: no key of the index belongs to a cable with one endpoint, and the
\* cost estimator never returns such a cable.
C9_NoSingleEndpointCable ==
    /\ \A k \in KeySet :
          TypeOf(k) = SUBMARINE_TYPE => Len(SUBMARINE_CABLES[DataOf(k)].endpoints) # 1
    /\ (Running /\ top.op = "g2g") =>
          Len(SUBMARINE_CABLES[find_closest_submarine_cable_between(top.a, top.b).cable]
                  .endpoints) # 1

\* C10: every SubmarineLine on the map names a cable with at least two
\* endpoints and runs between two landing points of that cable.
C10_SubmarineOnCable ==
    \A i \in DOMAIN map :
        map[i].type = "submarine" =>
            \E c \in CableIds :
                /\ SUBMARINE_CABLES[c].name = map[i].name
                /\ Len(SUBMARINE_CABLES[c].endpoints) >= 2
                /\ {map[i].from, map[i].to} \subseteq Endpoints(c)

\* A SubmarineLine starts or ends at a landing point two cables share.
C10_Witness ==
    \E i \in DOMAIN Emitted :
        /\ Emitted[i].type = "submarine"
        /\ Emitted[i].from # Emitted[i].to
        /\ \E c1, c2 \in CableIds :
              /\ c1 # c2
              /\ Endpoints(c1) # Endpoints(c2)
              /\ Len(SUBMARINE_CABLES[c1].endpoints) >= 2
              /\ Len(SUBMARINE_CABLES[c2].endpoints) >= 2
              /\ {Emitted[i].from, Emitted[i].to} \cap Endpoints(c1) \cap Endpoints(c2) # {}

====
